---------------------------- MODULE Spec2Model ----------------------------
(***************************************************************************)
(* Shamir secret sharing (src/src/sss.rs, SecretSharer) and Feldman        *)
(* verifiable secret sharing (src/src/vss.rs, FeldmanVSS).                 *)
(*                                                                         *)
(* BigUint values are modelled as naturals.  BigUint subtraction panics    *)
(* when the result would be negative; every operator that subtracts models *)
(* that outcome explicitly.  Option/Result values are records with a tag   *)
(* ("Some"/"None", "Ok"/"Err"); a panic that unwinds out of a call is the   *)
(* tag "Panic".                                                            *)
(*                                                                         *)
(* The casts `x as u32` / `power as u32` of the source are exact below     *)
(* 2^32; every usize of the model is far below that, so they do not change *)
(* any value that is modelled here.                                        *)
(***************************************************************************)
EXTENDS Integers, Sequences, FiniteSets

(***************************************************************************)
(* Bounds of the model.                                                    *)
(***************************************************************************)
MaxThreshold == 2
MaxShares == 4
MaxSecret == 3
MaxLen == 3

\* (p, q, g) triples given to FeldmanVSS::new: g has prime order q modulo the
\* prime p in each of them.
VSSGroups == { <<3, 2, 2>>, <<7, 3, 2>>, <<11, 5, 3>> }

\* y/value fields of caller-supplied shares.
SuppliedValues == {1, 2}

(***************************************************************************)
(* BigUint arithmetic.                                                     *)
(***************************************************************************)
\* BigUint::modpow(exp, modulus): base^exp mod modulus, modulus > 0.
RECURSIVE modpow(_, _, _)
modpow(base, exp, modulus) ==
    IF exp = 0 THEN 1 % modulus
    ELSE ((base % modulus) * modpow(base, exp - 1, modulus)) % modulus

Some(v) == [tag |-> "Some", val |-> v]
None == [tag |-> "None", val |-> 0]
Panic == [tag |-> "Panic", val |-> 0]

(***************************************************************************)
(* src/src/sss.rs                                                          *)
(***************************************************************************)
\* The modulus fixed by SecretSharer::new is the Mersenne prime 2^521 - 1.
\* The model keeps the Mersenne form with the exponent 3, so that products of
\* field elements fit the model checker's integers; every total_shares of the
\* model stays below it, as every usize stays below 2^521 - 1.
sss_prime == 2^3 - 1

SssShare(x, y) == [x |-> x, y |-> y]

\* SecretSharer::evaluate_polynomial: the fold over (power, coeff), from `from`.
RECURSIVE sss_evaluate_fold(_, _, _, _, _)
sss_evaluate_fold(prime, coefficients, x, from, acc) ==
    IF from > Len(coefficients) THEN acc
    ELSE LET power == from - 1
             term == coefficients[from] * modpow(x, power, prime)
         IN  sss_evaluate_fold(prime, coefficients, x, from + 1, (acc + term) % prime)

sss_evaluate_polynomial(self, coefficients, x) ==
    sss_evaluate_fold(self.prime, coefficients, x, 1, 0)

\* SecretSharer::split_secret, given the values the random source returns.
sss_split_secret(self, secret, random) ==
    LET coefficients == <<secret % self.prime>> \o random
    IN  [coefficients |-> coefficients,
         shares |-> [i \in 1..self.total_shares |->
                        SssShare(i, sss_evaluate_polynomial(self, coefficients, i))]]

\* Faulty variant of sss_mod_inverse: the zero test is missing, so the inverse
\* of 0 comes out as 0^(prime-2) = 0.
sss_mod_inverse_unchecked(self, a) ==
    Some(modpow(a, self.prime - 2, self.prime))

sss_mod_inverse(self, a) ==
    IF a = 0 THEN None
    ELSE Some(modpow(a, self.prime - 2, self.prime))

\* The fold of calculate_lagrange_coefficient over the shares j # i, in order.
\* acc is [num, den, panicked]; the subtraction prime + x_j - x_i panics when
\* x_i exceeds prime + x_j.
RECURSIVE sss_lagrange_fold(_, _, _, _, _, _)
sss_lagrange_fold(self, share_i, shares, i, j, acc) ==
    IF acc.panicked \/ j > Len(shares) THEN acc
    ELSE IF j = i THEN sss_lagrange_fold(self, share_i, shares, i, j + 1, acc)
    ELSE LET share_j == shares[j]
             new_num == (acc.num * share_j.x) % self.prime
             underflow == ~(share_j.x > share_i.x)
                          /\ self.prime + share_j.x < share_i.x
             diff == IF share_j.x > share_i.x
                     THEN (share_j.x - share_i.x) % self.prime
                     ELSE (self.prime + share_j.x - share_i.x) % self.prime
             new_den == (acc.den * diff) % self.prime
         IN  IF underflow
             THEN [num |-> 0, den |-> 0, panicked |-> TRUE]
             ELSE sss_lagrange_fold(self, share_i, shares, i, j + 1,
                                    [num |-> new_num, den |-> new_den, panicked |-> FALSE])

sss_calculate_lagrange_coefficient(self, share_i, shares, i) ==
    LET r == sss_lagrange_fold(self, share_i, shares, i, 1,
                               [num |-> 1, den |-> 1, panicked |-> FALSE])
        den_inv == sss_mod_inverse(self, r.den)
    IN  IF r.panicked THEN Panic
        ELSE IF den_inv.tag = "None" THEN None
        ELSE Some((r.num * den_inv.val) % self.prime)

\* The loop of reconstruct_secret over the sliced shares, from index i.
RECURSIVE sss_reconstruct_loop(_, _, _, _)
sss_reconstruct_loop(self, shares, i, secret) ==
    IF i > Len(shares) THEN Some(secret)
    ELSE LET share_i == shares[i]
             lagrange_coeff == sss_calculate_lagrange_coefficient(self, share_i, shares, i)
         IN  IF lagrange_coeff.tag # "Some" THEN lagrange_coeff
             ELSE sss_reconstruct_loop(self, shares, i + 1,
                      (secret + share_i.y * lagrange_coeff.val) % self.prime)

\* Faulty variant of sss_reconstruct_secret: it refuses only an empty slice and
\* interpolates whatever shares there are, up to threshold of them.
sss_reconstruct_secret_nonempty(self, shares) ==
    IF Len(shares) = 0 THEN None
    ELSE sss_reconstruct_loop(self,
             SubSeq(shares, 1, IF Len(shares) < self.threshold
                               THEN Len(shares) ELSE self.threshold), 1, 0)

sss_reconstruct_secret(self, shares) ==
    IF Len(shares) < self.threshold THEN None
    ELSE sss_reconstruct_loop(self, SubSeq(shares, 1, self.threshold), 1, 0)

(***************************************************************************)
(* src/src/vss.rs                                                          *)
(***************************************************************************)
VssShare(id, value) == [id |-> id, value |-> value]

RECURSIVE vss_evaluate_fold(_, _, _, _, _)
vss_evaluate_fold(q, coefficients, x, from, acc) ==
    IF from > Len(coefficients) THEN acc
    ELSE LET power == from - 1
             term == coefficients[from] * modpow(x, power, q)
         IN  vss_evaluate_fold(q, coefficients, x, from + 1, (acc + term) % q)

\* Faulty variant of vss_evaluate_polynomial: the field modulus p is used where
\* the subgroup order q belongs.
vss_evaluate_polynomial_mod_p(self, coefficients, x) ==
    vss_evaluate_fold(self.p, coefficients, x, 1, 0)

vss_evaluate_polynomial(self, coefficients, x) ==
    vss_evaluate_fold(self.q, coefficients, x, 1, 0)

vss_generate_polynomial(self, secret, random) == <<secret>> \o random

vss_generate_commitments(self, coefficients) ==
    [k \in 1..Len(coefficients) |-> modpow(self.g, coefficients[k], self.p)]

vss_generate_shares(self, coefficients) ==
    [i \in 1..self.total_shares |->
        VssShare(i, vss_evaluate_polynomial(self, coefficients, i))]

\* Faulty variant of vss_split_secret: the domain test is `>` instead of `>=`.
vss_split_secret_gt(self, secret, random) ==
    IF secret > self.q
    THEN [tag |-> "Err", coefficients |-> <<>>, shares |-> <<>>, commitments |-> <<>>]
    ELSE LET coefficients == vss_generate_polynomial(self, secret, random)
         IN  [tag |-> "Ok",
              coefficients |-> coefficients,
              shares |-> vss_generate_shares(self, coefficients),
              commitments |-> vss_generate_commitments(self, coefficients)]

\* FeldmanVSS::split_secret, given the values the random source returns.
vss_split_secret(self, secret, random) ==
    IF secret >= self.q
    THEN [tag |-> "Err", coefficients |-> <<>>, shares |-> <<>>, commitments |-> <<>>]
    ELSE LET coefficients == vss_generate_polynomial(self, secret, random)
         IN  [tag |-> "Ok",
              coefficients |-> coefficients,
              shares |-> vss_generate_shares(self, coefficients),
              commitments |-> vss_generate_commitments(self, coefficients)]

RECURSIVE vss_commitment_fold(_, _, _, _, _)
vss_commitment_fold(self, share, commitments, from, acc) ==
    IF from > Len(commitments) THEN acc
    ELSE LET power == from - 1
             x_power == modpow(share.id, power, self.q)
             term == modpow(commitments[from], x_power, self.p)
         IN  vss_commitment_fold(self, share, commitments, from + 1, (acc * term) % self.p)

vss_compute_commitment_product(self, share, commitments) ==
    vss_commitment_fold(self, share, commitments, 1, 1)

\* Faulty variant of vss_verify_share: the right-hand side is reduced modulo q
\* instead of p.
vss_verify_share_mod_q(self, share, commitments) ==
    LET lhs == vss_compute_commitment_product(self, share, commitments)
        rhs == modpow(self.g, share.value, self.q)
    IN  lhs = rhs

vss_verify_share(self, share, commitments) ==
    LET lhs == vss_compute_commitment_product(self, share, commitments)
        rhs == modpow(self.g, share.value, self.p)
    IN  lhs = rhs

vss_mod_inverse(self, a) ==
    IF a = 0 THEN None
    ELSE Some(modpow(a, self.q - 2, self.q))

RECURSIVE vss_lagrange_fold(_, _, _, _, _, _)
vss_lagrange_fold(self, share_i, shares, i, j, acc) ==
    IF acc.panicked \/ j > Len(shares) THEN acc
    ELSE IF j = i THEN vss_lagrange_fold(self, share_i, shares, i, j + 1, acc)
    ELSE LET share_j == shares[j]
             new_num == (acc.num * share_j.id) % self.q
             underflow == ~(share_j.id > share_i.id)
                          /\ self.q + share_j.id < share_i.id
             diff == IF share_j.id > share_i.id
                     THEN (share_j.id - share_i.id) % self.q
                     ELSE (self.q + share_j.id - share_i.id) % self.q
             new_den == (acc.den * diff) % self.q
         IN  IF underflow
             THEN [num |-> 0, den |-> 0, panicked |-> TRUE]
             ELSE vss_lagrange_fold(self, share_i, shares, i, j + 1,
                                    [num |-> new_num, den |-> new_den, panicked |-> FALSE])

vss_calculate_lagrange_coefficient(self, share_i, shares, i) ==
    LET r == vss_lagrange_fold(self, share_i, shares, i, 1,
                               [num |-> 1, den |-> 1, panicked |-> FALSE])
        den_inv == vss_mod_inverse(self, r.den)
    IN  IF r.panicked THEN Panic
        ELSE IF den_inv.tag = "None" THEN None
        ELSE Some((r.num * den_inv.val) % self.q)

\* The try_fold of reconstruct_secret over the sliced shares, from index i.
RECURSIVE vss_reconstruct_fold(_, _, _, _)
vss_reconstruct_fold(self, shares, i, acc) ==
    IF i > Len(shares) THEN Some(acc)
    ELSE LET share == shares[i]
             coeff == vss_calculate_lagrange_coefficient(self, share, shares, i)
         IN  IF coeff.tag # "Some" THEN coeff
             ELSE vss_reconstruct_fold(self, shares, i + 1,
                      (acc + share.value * coeff.val) % self.q)

\* Faulty variant of vss_reconstruct_secret: the slice to the first threshold
\* shares is missing, so every supplied share enters the interpolation.
vss_reconstruct_secret_unsliced(self, shares) ==
    IF Len(shares) < self.threshold THEN None
    ELSE vss_reconstruct_fold(self, shares, 1, 0)

vss_reconstruct_secret(self, shares) ==
    IF Len(shares) < self.threshold THEN None
    ELSE vss_reconstruct_fold(self, SubSeq(shares, 1, self.threshold), 1, 0)

(***************************************************************************)
(* Constructors.                                                           *)
(***************************************************************************)
\* SecretSharer::new: no check of threshold against total_shares.
sss_new(threshold, total_shares) ==
    [kind |-> "sss", prime |-> sss_prime,
     threshold |-> threshold, total_shares |-> total_shares]

\* FeldmanVSS::new: panics when threshold > total_shares.
vss_new(p, q, g, threshold, total_shares) ==
    IF threshold > total_shares
    THEN [kind |-> "panicked"]
    ELSE [kind |-> "vss", p |-> p, q |-> q, g |-> g,
          threshold |-> threshold, total_shares |-> total_shares]

(***************************************************************************)
(* State.                                                                  *)
(*   holder       the SecretSharer or FeldmanVSS of the run                *)
(*   constructed  history: the holder as its constructor returned it       *)
(*   dealt        what the last split_secret returned, with the secret it  *)
(*                was given and the polynomial it drew                     *)
(*   call         the last verify_share / reconstruct_secret call with its *)
(*                argument and return value, until the caller drops it     *)
(*   split_failed history: some split_secret of the run returned Err       *)
(***************************************************************************)
VARIABLES holder, constructed, dealt, call, split_failed

vars == <<holder, constructed, dealt, call, split_failed>>

NoHolder == [kind |-> "none"]
NoDeal == [tag |-> "none", secret |-> 0, coefficients |-> <<>>,
           shares |-> <<>>, commitments |-> <<>>]
NoCall == [op |-> "none"]

Init ==
    /\ holder = NoHolder
    /\ constructed = NoHolder
    /\ dealt = NoDeal
    /\ call = NoCall
    /\ split_failed = FALSE

Thresholds == 0..MaxThreshold
TotalShares == 0..MaxShares
Secrets == 0..MaxSecret

\* The values gen_biguint_range(0, modulus) can return in the iterations of
\* `for _ in 1..threshold`.
RandomDraws(threshold, modulus) ==
    [1..(IF threshold >= 1 THEN threshold - 1 ELSE 0) -> 0..(modulus - 1)]

\* Sequences of up to MaxLen pairwise-different entries of `shares`, in any order.
Selections(shares) ==
    LET pick(l) == { f \in [1..l -> 1..Len(shares)] :
                        \A a, b \in 1..l : a # b => f[a] # f[b] }
    IN  UNION { { [k \in 1..l |-> shares[f[k]]] : f \in pick(l) } : l \in 0..MaxLen }

\* Shares a caller can hand to verify_share: any id, any value, among them
\* the generated shares and their one-field changes.
VerifyInputs(self) ==
    { VssShare(id, value) : id \in 0..(MaxShares + 1), value \in 0..(2 * self.q - 1) }

\* Coordinates of caller-supplied shares, for the modulus m: zero, small ones,
\* and one above the modulus.
SuppliedCoords(m) == {0, 1, 2, m + 1}

SuppliedSssShares(self) ==
    { SssShare(x, y) : x \in SuppliedCoords(self.prime), y \in SuppliedValues }

SuppliedVssShares(self) ==
    { VssShare(id, value) : id \in SuppliedCoords(self.q), value \in SuppliedValues }

SeqsUpTo(S, n) == UNION { [1..l -> S] : l \in 0..n }

(***************************************************************************)
(* Actions.                                                                *)
(***************************************************************************)
SssNew(threshold, total_shares) ==
    /\ holder.kind = "none"
    /\ holder' = sss_new(threshold, total_shares)
    /\ constructed' = holder'
    /\ UNCHANGED <<dealt, call, split_failed>>

VssNew(p, q, g, threshold, total_shares) ==
    /\ holder.kind = "none"
    /\ holder' = vss_new(p, q, g, threshold, total_shares)
    /\ constructed' = holder'
    /\ UNCHANGED <<dealt, call, split_failed>>

SssSplitSecret(secret, random) ==
    /\ holder.kind = "sss"
    /\ call = NoCall
    /\ LET r == sss_split_secret(holder, secret, random)
       IN  dealt' = [tag |-> "Ok", secret |-> secret, coefficients |-> r.coefficients,
                     shares |-> r.shares, commitments |-> <<>>]
    /\ UNCHANGED <<holder, constructed, call, split_failed>>

VssSplitSecret(secret, random) ==
    /\ holder.kind = "vss"
    /\ call = NoCall
    /\ LET r == vss_split_secret(holder, secret, random)
       IN  /\ dealt' = [tag |-> r.tag, secret |-> secret, coefficients |-> r.coefficients,
                        shares |-> r.shares, commitments |-> r.commitments]
           /\ split_failed' = (split_failed \/ r.tag = "Err")
    /\ UNCHANGED <<holder, constructed, call>>

VssVerifyShare(share) ==
    /\ holder.kind = "vss"
    /\ dealt.tag = "Ok"
    /\ call = NoCall
    /\ call' = [op |-> "verify_share", arg |-> share,
                ret |-> vss_verify_share(holder, share, dealt.commitments)]
    /\ UNCHANGED <<holder, constructed, dealt, split_failed>>

SssReconstructSecret(shares) ==
    /\ holder.kind = "sss"
    /\ call = NoCall
    /\ call' = [op |-> "reconstruct_secret", arg |-> shares,
                ret |-> sss_reconstruct_secret(holder, shares)]
    /\ UNCHANGED <<holder, constructed, dealt, split_failed>>

VssReconstructSecret(shares) ==
    /\ holder.kind = "vss"
    /\ call = NoCall
    /\ call' = [op |-> "reconstruct_secret", arg |-> shares,
                ret |-> vss_reconstruct_secret(holder, shares)]
    /\ UNCHANGED <<holder, constructed, dealt, split_failed>>

\* The caller drops the last return value and is free to call again.
Drop ==
    /\ call # NoCall
    /\ call' = NoCall
    /\ UNCHANGED <<holder, constructed, dealt, split_failed>>

Construct ==
    \/ \E threshold \in Thresholds, total_shares \in TotalShares :
          SssNew(threshold, total_shares)
    \/ \E grp \in VSSGroups, threshold \in Thresholds, total_shares \in TotalShares :
          VssNew(grp[1], grp[2], grp[3], threshold, total_shares)

\* The pipeline on generated shares: split, verify, reconstruct from a
\* selection of the shares the last split returned.
Next ==
    \/ Construct
    \/ /\ holder.kind = "sss"
       /\ call = NoCall
       /\ \E secret \in Secrets, random \in RandomDraws(holder.threshold, holder.prime) :
             SssSplitSecret(secret, random)
    \/ /\ holder.kind = "vss"
       /\ call = NoCall
       /\ \E secret \in Secrets, random \in RandomDraws(holder.threshold, holder.q) :
             VssSplitSecret(secret, random)
    \/ /\ holder.kind = "vss"
       /\ call = NoCall
       /\ dealt.tag = "Ok"
       /\ \E share \in VerifyInputs(holder) : VssVerifyShare(share)
    \/ /\ holder.kind = "sss"
       /\ call = NoCall
       /\ dealt.tag = "Ok"
       /\ \E shares \in Selections(dealt.shares) : SssReconstructSecret(shares)
    \/ /\ holder.kind = "vss"
       /\ call = NoCall
       /\ dealt.tag = "Ok"
       /\ \E shares \in Selections(dealt.shares) : VssReconstructSecret(shares)
    \/ Drop

Spec == Init /\ [][Next]_vars

\* reconstruct_secret on sequences of caller-supplied shares.
NextSupplied ==
    \/ Construct
    \/ /\ holder.kind = "sss"
       /\ call = NoCall
       /\ \E shares \in SeqsUpTo(SuppliedSssShares(holder), MaxLen) :
             SssReconstructSecret(shares)
    \/ /\ holder.kind = "vss"
       /\ call = NoCall
       /\ \E shares \in SeqsUpTo(SuppliedVssShares(holder), MaxLen) :
             VssReconstructSecret(shares)
    \/ Drop

SpecSupplied == Init /\ [][NextSupplied]_vars

(***************************************************************************)
(* Vocabulary of the properties.                                           *)
(***************************************************************************)
IsHolder == holder.kind \in {"sss", "vss"}

\* The working modulus of the holder: prime for SSS, q for VSS.
Modulus == IF holder.kind = "sss" THEN holder.prime ELSE holder.q

\* The x / id and the y / value of a share of the holder's scheme.
Coord(share) == IF holder.kind = "sss" THEN share.x ELSE share.id
Value(share) == IF holder.kind = "sss" THEN share.y ELSE share.value

Reconstruct(shares) ==
    IF holder.kind = "sss" THEN sss_reconstruct_secret(holder, shares)
    ELSE vss_reconstruct_secret(holder, shares)

Reconstructing == IsHolder /\ call.op = "reconstruct_secret"
Verifying == holder.kind = "vss" /\ call.op = "verify_share"

\* Positions among the first threshold entries of the reconstruct argument.
Used == 1..holder.threshold

DuplicateUsed ==
    \E i, j \in Used : i # j /\ Coord(call.arg[i]) = Coord(call.arg[j])

ZeroUsed == \E i \in Used : Coord(call.arg[i]) = 0

\* The share values split_secret produces at the positions P for a secret and
\* one outcome of the random draws.
ValuesAt(secret, random, P) ==
    IF holder.kind = "sss"
    THEN [i \in P |-> sss_split_secret(holder, secret, random).shares[i].y]
    ELSE [i \in P |-> vss_split_secret(holder, secret, random).shares[i].value]

\* All the value tuples split_secret can produce at the positions P.
Views(secret, P) ==
    { ValuesAt(secret, random, P) : random \in RandomDraws(holder.threshold, Modulus) }

ValidSecrets == { s \in Secrets : s < Modulus }

(***************************************************************************)
(* C1: round trip.  With 1 <= threshold <= total_shares and a secret below  *)
(* the modulus, reconstruct_secret on any sequence of at least threshold   *)
(* pairwise-different generated shares, in any order, returns Some(secret).*)
(***************************************************************************)
C1_RoundTrip ==
    ( /\ Reconstructing
      /\ dealt.tag = "Ok"
      /\ 1 <= holder.threshold
      /\ holder.threshold <= holder.total_shares
      /\ dealt.secret < Modulus
      /\ Len(call.arg) >= holder.threshold )
    => call.ret = Some(dealt.secret)

(***************************************************************************)
(* C2: secrecy below the threshold.  For any two valid secrets and any set *)
(* of fewer than threshold share positions, split_secret can produce the   *)
(* same value tuples at those positions for both secrets; and no share is  *)
(* evaluated at a point congruent to 0 modulo the working modulus.         *)
(***************************************************************************)
C2_Secrecy ==
    ( /\ IsHolder
      /\ 1 <= holder.threshold
      /\ holder.threshold <= holder.total_shares ) =>
        /\ \A P \in SUBSET (1..holder.total_shares) :
              Cardinality(P) < holder.threshold =>
                 \A s1, s2 \in ValidSecrets : Views(s1, P) = Views(s2, P)
        /\ \A i \in 1..holder.total_shares : i % Modulus # 0

(***************************************************************************)
(* C3: honest shares verify.  Every share split_secret returned satisfies  *)
(* verify_share against the commitments of the same split.                 *)
(***************************************************************************)
C3_HonestSharesVerify ==
    ( /\ Verifying
      /\ \E i \in 1..Len(dealt.shares) : dealt.shares[i] = call.arg )
    => call.ret = TRUE

C3_Witness ==
    /\ Verifying
    /\ holder.threshold >= 2
    /\ dealt.coefficients[2] # 0
    /\ \E i \in 2..Len(dealt.shares) : dealt.shares[i] = call.arg
    /\ call.ret = TRUE

(***************************************************************************)
(* C4: commitment binding under mutation.  As claimed: a generated share   *)
(* with its value changed, or with its id changed, never verifies.         *)
(***************************************************************************)
C4_MutationRejected ==
    ( /\ Verifying
      /\ 1 <= holder.threshold
      /\ \E i \in 1..Len(dealt.shares) :
            \/ call.arg.id = dealt.shares[i].id /\ call.arg.value # dealt.shares[i].value
            \/ call.arg.value = dealt.shares[i].value /\ call.arg.id # dealt.shares[i].id )
    => call.ret = FALSE

(***************************************************************************)
(* C4, amended: verify_share is true exactly when the share's value is     *)
(* congruent modulo q to the committed polynomial's value at the share's   *)
(* id.  A changed value is rejected unless it differs by a multiple of q;  *)
(* a changed id is rejected unless the polynomial takes a congruent value  *)
(* at the new id.                                                          *)
(***************************************************************************)
C4_VerifiesIffOnPolynomial ==
    Verifying =>
        ( call.ret = TRUE <=>
             call.arg.value % holder.q
                = vss_evaluate_polynomial(holder, dealt.coefficients, call.arg.id) )

C4_Witness ==
    /\ Verifying
    /\ holder.threshold >= 2
    /\ \E i \in 1..Len(dealt.shares) :
          /\ call.arg.id = dealt.shares[i].id
          /\ call.arg.value # dealt.shares[i].value
          /\ call.arg.value < holder.q
    /\ call.ret = FALSE

(***************************************************************************)
(* C5: reconstruction never crashes.  reconstruct_secret on any sequence   *)
(* of shares returns a value or the absent result.                         *)
(***************************************************************************)
C5_NeverCrashes ==
    Reconstructing => call.ret.tag \in {"Some", "None"}

(***************************************************************************)
(* C6: threshold floor.  reconstruct_secret on fewer than threshold shares *)
(* returns None, whatever the shares hold.                                 *)
(***************************************************************************)
C6_ThresholdFloor ==
    ( Reconstructing /\ Len(call.arg) < holder.threshold ) => call.ret = None

C6_Witness ==
    /\ Reconstructing
    /\ Len(call.arg) >= 1
    /\ Len(call.arg) < holder.threshold
    /\ call.ret = None

(***************************************************************************)
(* C7: parameter-holder invariant.  Every holder has 1 <= threshold, every *)
(* FeldmanVSS has threshold <= total_shares, and the parameters keep their *)
(* constructed values.                                                     *)
(***************************************************************************)
C7_HolderInvariant ==
    IsHolder =>
        /\ 1 <= holder.threshold
        /\ holder.kind = "vss" => holder.threshold <= holder.total_shares
        /\ holder = constructed

(***************************************************************************)
(* C8: FeldmanVSS::split_secret returns Err, with no shares and no         *)
(* commitments, exactly when secret >= q; the holder keeps its parameters; *)
(* a split that succeeds, also after a failed one, returns total_shares    *)
(* shares with the ids 1..total_shares in order.                           *)
(***************************************************************************)
C8_DomainError ==
    ( holder.kind = "vss" /\ dealt.tag # "none" ) =>
        /\ dealt.tag = "Err" <=> dealt.secret >= holder.q
        /\ dealt.tag = "Err" => dealt.shares = <<>> /\ dealt.commitments = <<>>
        /\ holder = constructed
        /\ dealt.tag = "Ok" =>
              /\ Len(dealt.shares) = holder.total_shares
              /\ \A i \in 1..Len(dealt.shares) : dealt.shares[i].id = i

C8_Witness ==
    /\ holder.kind = "vss"
    /\ split_failed
    /\ dealt.tag = "Ok"
    /\ Len(dealt.shares) >= 2

UnderflowUsed ==
    \E i, j \in Used : i # j /\ Coord(call.arg[i]) > Modulus + Coord(call.arg[j])

UsedDistinctModulo ==
    \A i, j \in Used :
        i # j => Coord(call.arg[i]) % Modulus # Coord(call.arg[j]) % Modulus

C10_PositionalSelection ==
    ( Reconstructing /\ Len(call.arg) >= holder.threshold ) =>
        call.ret = Reconstruct(SubSeq(call.arg, 1, holder.threshold))

\* The first threshold entries are unusable while the entries after the first
\* would reconstruct.
C10_Witness ==
    /\ Reconstructing
    /\ holder.threshold >= 2
    /\ Len(call.arg) > holder.threshold
    /\ call.ret = None
    /\ Reconstruct(SubSeq(call.arg, 2, Len(call.arg))).tag = "Some"

=============================================================================
